---- MODULE Spec2Model ----
(***************************************************************************)
(* Model of the batch lightmap baker (src/lightmap_baker.py): the node     *)
(* search (Utils.find_node), the rewiring (Utils.connect_nodes), the       *)
(* REAL/BAKED shading toggle and the per-object bake pipeline of           *)
(* ShadingManager, the name list of BakeSettings.get_object_names and the  *)
(* loop of the bake-all operator, over material node graphs as the host    *)
(* keeps them.                                                             *)
(*                                                                         *)
(* A node graph is the sequence of its nodes in the host's node order.     *)
(* A node is a record                                                      *)
(*   id     identity inside its graph                                      *)
(*   type   the short type tag the search compares                         *)
(*   name   the node's name                                                *)
(*   marker value of node.get("originally_connected_to_output_surface")    *)
(*   image  name of the image bound to the node ("None" when none)         *)
(*   in0    the link into input socket 0 (the Surface input of a material  *)
(*          output node): source node id and source output socket, or      *)
(*          NoLink                                                         *)
(***************************************************************************)
EXTENDS Integers, Sequences, FiniteSets, TLC

VARIABLES objects, materials, images, files, last, snap, steps, crit, batch

vars == <<objects, materials, images, files, last, snap, steps, crit, batch>>

----------------------------------------------------------------------------
(* Python values *)
None == "None"
PyTrue == "True"
PyFalse == "False"

\* F applied to a value that is computed once
With(x, F(_)) == F(x)

\* Python truthiness of an Optional[str] field
Truthy(x) == x # None /\ x # ""

NODE_BAKE_IMAGE_NAME == "BakeImage"
OUTPUT_MATERIAL == "OUTPUT_MATERIAL"
BSDF_PRINCIPLED == "BSDF_PRINCIPLED"
TEX_IMAGE == "TEX_IMAGE"
OUTPUT_MATERIAL_CREATE == "ShaderNodeOutputMaterial"
BSDF_PRINCIPLED_CREATE == "ShaderNodeBsdfPrincipled"
TEX_IMAGE_CREATE == "ShaderNodeTexImage"
MARKER == "originally_connected_to_output_surface"

\* nodes.new(type=...): the short type tag of a node made from a full identifier
CreatedType(ct) ==
    CASE ct = OUTPUT_MATERIAL_CREATE -> OUTPUT_MATERIAL
      [] ct = BSDF_PRINCIPLED_CREATE -> BSDF_PRINCIPLED
      [] ct = TEX_IMAGE_CREATE -> TEX_IMAGE

\* the name the host gives a new node of a type
DefaultName(t) ==
    CASE t = OUTPUT_MATERIAL -> "Material Output"
      [] t = BSDF_PRINCIPLED -> "Principled BSDF"
      [] t = TEX_IMAGE -> "Image Texture"

\* number of output sockets of a node of a type (node.outputs)
NumOutputs(t) ==
    CASE t = OUTPUT_MATERIAL -> 0
      [] t = BSDF_PRINCIPLED -> 1
      [] t = TEX_IMAGE -> 2

NoLink == [node |-> 0, sock |-> 0]

Node(i, t, n) == [id |-> i, type |-> t, name |-> n, marker |-> None,
                  image |-> None, in0 |-> NoLink]

Ids(nodes) == {nodes[i].id : i \in 1..Len(nodes)}

FreshId(nodes) == CHOOSE i \in 1..(Len(nodes) + 1) :
                     /\ i \notin Ids(nodes)
                     /\ \A j \in 1..(i - 1) : j \in Ids(nodes)

\* position of the node with an id in the graph (0 when absent)
IndexOf(nodes, id) ==
    IF id \in Ids(nodes) THEN CHOOSE i \in 1..Len(nodes) : nodes[i].id = id ELSE 0

NodeById(nodes, id) == nodes[IndexOf(nodes, id)]

\* nodes.new(type=ct): the new node goes to the end of the node order
NodesNew(nodes, ct) ==
    Append(nodes, Node(FreshId(nodes), CreatedType(ct), DefaultName(CreatedType(ct))))

\* nodes.remove(n): the node goes, and every link from it with it
NodesRemove(nodes, id) ==
    LET kept == SelectSeq(nodes, LAMBDA n : n.id # id)
    IN  [i \in 1..Len(kept) |->
            IF kept[i].in0.node = id THEN [kept[i] EXCEPT !.in0 = NoLink] ELSE kept[i]]

\* links.new(a.outputs[s], b.inputs[0]): replaces the link into b's input
LinksNew(nodes, aid, s, bid) ==
    [i \in 1..Len(nodes) |->
        IF nodes[i].id = bid THEN [nodes[i] EXCEPT !.in0 = [node |-> aid, sock |-> s]]
        ELSE nodes[i]]

\* node[key] = v
SetProp(nodes, id, v) ==
    [i \in 1..Len(nodes) |->
        IF nodes[i].id = id THEN [nodes[i] EXCEPT !.marker = v] ELSE nodes[i]]

\* node.get(key)
NodeGet(node, key) == IF key = MARKER THEN node.marker ELSE None

----------------------------------------------------------------------------
(* SearchNodeData *)

SearchArgs(t, n, cp, cpv, fb, si, cinf, ct, cn) ==
    [type |-> t, name |-> n, custom_property |-> cp, custom_property_value |-> cpv,
     custom_property_not_found_fallback_type |-> fb, socket_index |-> si,
     create_if_not_found |-> cinf, create_type |-> ct, create_name |-> cn]

\* the dataclass defaults
ByType(t) == SearchArgs(t, None, None, PyTrue, None, 0, FALSE, None, None)
ByName(n) == SearchArgs(None, n, None, PyTrue, None, 0, FALSE, None, None)

\* a validation that forgets the create_type check
SearchNodeData_no_create_check(a) ==
    IF ~(Truthy(a.type) \/ Truthy(a.name) \/ Truthy(a.custom_property))
    THEN [ok |-> FALSE, data |-> a]
    ELSE [ok |-> TRUE, data |-> a]

\* __post_init__: the construction succeeds (ok) or raises ValueError
SearchNodeData(a) ==
    IF ~(Truthy(a.type) \/ Truthy(a.name) \/ Truthy(a.custom_property))
    THEN [ok |-> FALSE, data |-> a]
    ELSE IF a.create_if_not_found /\ ~Truthy(a.create_type)
    THEN [ok |-> FALSE, data |-> a]
    ELSE [ok |-> TRUE, data |-> a]

----------------------------------------------------------------------------
(* Utils.find_node *)

\* the condition of the loop body for one node
Matches(node, c) ==
    \/ Truthy(c.type) /\ node.type = c.type
    \/ Truthy(c.name) /\ node.name = c.name
    \/ Truthy(c.custom_property)
          /\ NodeGet(node, c.custom_property) = c.custom_property_value

RECURSIVE ScanFrom(_, _, _)
\* a loop that keeps the last node that matches instead of returning the first
ScanFrom_last(nodes, c, i) ==
    IF i > Len(nodes) THEN 0
    ELSE IF ScanFrom(nodes, c, i + 1) # 0 THEN ScanFrom(nodes, c, i + 1)
    ELSE IF Matches(nodes[i], c) THEN nodes[i].id
    ELSE 0

\* for node in nodes: ... return node (from position i on); 0 when the loop ends
ScanFrom(nodes, c, i) ==
    IF i > Len(nodes) THEN 0
    ELSE IF Matches(nodes[i], c) THEN nodes[i].id
    ELSE ScanFrom(nodes, c, i + 1)

RECURSIVE find_node(_, _)
\* returns the graph after the call and the id of the node returned (0 = None)
\* a search that creates the node whenever a create_type is given
find_node_always_create(nodes, c) ==
    IF Len(nodes) = 0 THEN [nodes |-> nodes, node |-> 0]
    ELSE With(ScanFrom(nodes, c, 1), LAMBDA hit :
      IF hit # 0 THEN [nodes |-> nodes, node |-> hit]
      ELSE IF Truthy(c.create_type)
      THEN With(NodesNew(nodes, c.create_type), LAMBDA made :
             [nodes |-> made, node |-> made[Len(made)].id])
      ELSE [nodes |-> nodes, node |-> 0])

find_node(nodes, c) ==
    IF Len(nodes) = 0 THEN [nodes |-> nodes, node |-> 0]
    ELSE With(ScanFrom(nodes, c, 1), LAMBDA hit :
      IF hit # 0 THEN [nodes |-> nodes, node |-> hit]
      ELSE IF Truthy(c.custom_property) /\ Truthy(c.custom_property_not_found_fallback_type)
      THEN find_node(nodes, SearchNodeData(ByType(c.custom_property_not_found_fallback_type)).data)
      ELSE IF c.create_if_not_found
      THEN With(NodesNew(nodes, c.create_type), LAMBDA made :
             [nodes |-> IF Truthy(c.create_name)
                        THEN [made EXCEPT ![Len(made)].name = c.create_name]
                        ELSE made,
              node |-> made[Len(made)].id])
      ELSE [nodes |-> nodes, node |-> 0])

----------------------------------------------------------------------------
(* Utils.connect_nodes *)

RECURSIVE ConnectFrom(_, _, _, _, _)
\* a loop that reports the failure but goes on with the remaining materials
ConnectFrom_keep_going(mats, slots, k, a, b) ==
    IF k > Len(slots) THEN [mats |-> mats, ok |-> PyTrue, at |-> 0, missing |-> None]
    ELSE With(find_node(mats[slots[k]], a), LAMBDA ra :
         With(find_node(ra.nodes, b), LAMBDA rb :
         With([mats EXCEPT ![slots[k]] = rb.nodes], LAMBDA searched :
           IF ra.node = 0 \/ rb.node = 0
           THEN [mats |-> ConnectFrom(searched, slots, k + 1, a, b).mats, ok |-> PyFalse,
                 at |-> k, missing |-> IF ra.node = 0 THEN "node_a" ELSE "node_b"]
           ELSE IF a.socket_index >= NumOutputs(NodeById(rb.nodes, ra.node).type)
           THEN [mats |-> searched, ok |-> "raise", at |-> k, missing |-> None]
           ELSE ConnectFrom(
                  [mats EXCEPT ![slots[k]] =
                      LinksNew(rb.nodes, ra.node, a.socket_index, rb.node)],
                  slots, k + 1, a, b))))

\* the loop over obj.data.materials from slot k on; mats is the state of all
\* material graphs.  ok is "True"/"False" (the return value) or "raise" (an
\* IndexError from node_a.outputs[socket_index]); at is the failing slot.
ConnectFrom(mats, slots, k, a, b) ==
    IF k > Len(slots) THEN [mats |-> mats, ok |-> PyTrue, at |-> 0, missing |-> None]
    ELSE With(find_node(mats[slots[k]], a), LAMBDA ra :
         With(find_node(ra.nodes, b), LAMBDA rb :
         With([mats EXCEPT ![slots[k]] = rb.nodes], LAMBDA searched :
           IF ra.node = 0
           THEN [mats |-> searched, ok |-> PyFalse, at |-> k, missing |-> "node_a"]
           ELSE IF rb.node = 0
           THEN [mats |-> searched, ok |-> PyFalse, at |-> k, missing |-> "node_b"]
           ELSE IF a.socket_index >= NumOutputs(NodeById(rb.nodes, ra.node).type)
           THEN [mats |-> searched, ok |-> "raise", at |-> k, missing |-> None]
           ELSE ConnectFrom(
                  [mats EXCEPT ![slots[k]] =
                      LinksNew(rb.nodes, ra.node, a.socket_index, rb.node)],
                  slots, k + 1, a, b))))

connect_nodes(mats, slots, a, b) == ConnectFrom(mats, slots, 1, a, b)

----------------------------------------------------------------------------
(* ShadingManager *)

\* a validity test that accepts every object the name resolves to
is_valid_mesh_any_type(objs, name) == name \in DOMAIN objs

is_valid_mesh(objs, name) == name \in DOMAIN objs /\ objs[name].type = "MESH"

\* node_b_data of both transitions
OutputCriteria ==
    SearchNodeData(SearchArgs(OUTPUT_MATERIAL, None, None, PyTrue, None, 0,
                              TRUE, OUTPUT_MATERIAL_CREATE, None)).data

\* a node_a_data that falls back to the first image texture
OriginalCriteria_fallback_texture ==
    SearchNodeData(SearchArgs(None, None, MARKER, PyTrue, TEX_IMAGE, 0,
                              FALSE, None, None)).data

\* node_a_data of switch_object_to_real_shading
OriginalCriteria ==
    SearchNodeData(SearchArgs(None, None, MARKER, PyTrue, BSDF_PRINCIPLED, 0,
                              FALSE, None, None)).data

\* the criteria of the marker reset loop
MarkerCriteria ==
    SearchNodeData(SearchArgs(None, None, MARKER, PyTrue, None, 0,
                              FALSE, None, None)).data

\* node_a_data of switch_object_to_baked_shading
BakeImageCriteria == SearchNodeData(ByName(NODE_BAKE_IMAGE_NAME)).data

RECURSIVE ResetFrom(_, _, _)
\* for mat in obj.data.materials: clear the marker of the node find_node returns
ResetFrom(mats, slots, k) ==
    IF k > Len(slots) THEN mats
    ELSE With(find_node(mats[slots[k]], MarkerCriteria), LAMBDA r :
           ResetFrom(IF r.node # 0
                     THEN [mats EXCEPT ![slots[k]] = SetProp(r.nodes, r.node, None)]
                     ELSE [mats EXCEPT ![slots[k]] = r.nodes],
                     slots, k + 1))

\* returns the material graphs after the call, the messages reported and the
\* outcome: "skipped", "no_materials", "failed", "raise" or "switched"
switch_object_to_real_shading(objs, mats, name) ==
    IF ~is_valid_mesh(objs, name)
    THEN [mats |-> mats, msgs |-> <<"W:skipped">>, res |-> "skipped", conn |-> 0]
    ELSE IF Len(objs[name].materials) = 0
    THEN [mats |-> mats, msgs |-> <<"I:switching to real", "W:materials not found">>,
          res |-> "no_materials", conn |-> 0]
    ELSE With(connect_nodes(mats, objs[name].materials, OriginalCriteria, OutputCriteria),
              LAMBDA c :
           IF c.ok = "raise"
           THEN [mats |-> c.mats, msgs |-> <<"I:switching to real">>,
                 res |-> "raise", conn |-> c.at]
           ELSE IF c.ok # PyTrue
           THEN [mats |-> c.mats,
                 msgs |-> <<"I:switching to real", "W:" \o c.missing \o " not found",
                            "W:failed to connect nodes">>,
                 res |-> "failed", conn |-> c.at]
           ELSE [mats |-> ResetFrom(c.mats, objs[name].materials, 1),
                 msgs |-> <<"I:switching to real", "I:switched to real">>,
                 res |-> "switched", conn |-> 0])

RECURSIVE StoreFrom(_, _, _)
\* a snapshot that marks the bake-image node, as one taken after the rewiring
StoreFrom_mark_bake_node(mats, slots, k) ==
    IF k > Len(slots) THEN mats
    ELSE With(find_node(mats[slots[k]], BakeImageCriteria), LAMBDA r :
           StoreFrom(IF r.node # 0
                     THEN [mats EXCEPT ![slots[k]] = SetProp(r.nodes, r.node, PyTrue)]
                     ELSE mats,
                     slots, k + 1))

\* for mat in obj.data.materials: tag the node linked into the Surface input
StoreFrom(mats, slots, k) ==
    IF k > Len(slots) THEN mats
    ELSE With(find_node(mats[slots[k]], SearchNodeData(ByType(OUTPUT_MATERIAL)).data),
              LAMBDA r :
         With(IF r.node = 0 THEN 0 ELSE NodeById(r.nodes, r.node).in0.node, LAMBDA src :
           StoreFrom(IF src # 0
                     THEN [mats EXCEPT ![slots[k]] = SetProp(r.nodes, src, PyTrue)]
                     ELSE [mats EXCEPT ![slots[k]] = r.nodes],
                     slots, k + 1)))

switch_object_to_baked_shading(objs, mats, name) ==
    IF ~is_valid_mesh(objs, name)
    THEN [mats |-> mats, msgs |-> <<"W:skipped">>, res |-> "skipped", conn |-> 0]
    ELSE IF Len(objs[name].materials) = 0
    THEN [mats |-> mats, msgs |-> <<"I:switching to baked", "W:materials not found">>,
          res |-> "no_materials", conn |-> 0]
    ELSE With(connect_nodes(StoreFrom(mats, objs[name].materials, 1), objs[name].materials,
                            BakeImageCriteria, OutputCriteria),
              LAMBDA c :
           IF c.ok = "raise"
           THEN [mats |-> c.mats, msgs |-> <<"I:switching to baked">>,
                 res |-> "raise", conn |-> c.at]
           ELSE IF c.ok # PyTrue
           THEN [mats |-> c.mats,
                 msgs |-> <<"I:switching to baked", "W:" \o c.missing \o " not found",
                            "W:failed to connect nodes">>,
                 res |-> "failed", conn |-> c.at]
           ELSE [mats |-> c.mats,
                 msgs |-> <<"I:switching to baked", "I:switched to baked">>,
                 res |-> "switched", conn |-> 0])

----------------------------------------------------------------------------
(* ShadingManager.bake_object_light *)

ImageName(name) == name \o "_Baked"

HasImage(imgs, n) == \E i \in imgs : i.name = n
ImageOf(imgs, n) == CHOOSE i \in imgs : i.name = n

\* for n in nodes: if n.name == NODE_BAKE_IMAGE_NAME: nodes.remove(n); break
RemoveOldBakeNode(nodes) ==
    LET hits == {i \in 1..Len(nodes) : nodes[i].name = NODE_BAKE_IMAGE_NAME}
    IN  IF hits = {} THEN nodes
        ELSE NodesRemove(nodes, nodes[CHOOSE i \in hits : \A j \in hits : i <= j].id)

\* a set-up that leaves the bake node of an earlier bake in the graph
SetUpBakeNode_keep_old(nodes, img) ==
    With(NodesNew(nodes, TEX_IMAGE_CREATE), LAMBDA made :
        [made EXCEPT ![Len(made)].name = NODE_BAKE_IMAGE_NAME,
                     ![Len(made)].image = img])

\* a set-up that does not bind the new node to the target image
SetUpBakeNode_no_image(nodes, img) ==
    With(NodesNew(RemoveOldBakeNode(nodes), TEX_IMAGE_CREATE), LAMBDA made :
        [made EXCEPT ![Len(made)].name = NODE_BAKE_IMAGE_NAME])

\* the body of the loop that sets up the bake node of one material
SetUpBakeNode(nodes, img) ==
    With(NodesNew(RemoveOldBakeNode(nodes), TEX_IMAGE_CREATE), LAMBDA made :
        [made EXCEPT ![Len(made)].name = NODE_BAKE_IMAGE_NAME,
                     ![Len(made)].image = img])

RECURSIVE BakeNodesFrom(_, _, _, _)
BakeNodesFrom(mats, slots, k, img) ==
    IF k > Len(slots) THEN mats
    ELSE BakeNodesFrom([mats EXCEPT ![slots[k]] = SetUpBakeNode(mats[slots[k]], img)],
                       slots, k + 1, img)

BakingMat(name) == name \o "_BakingMat"

\* env holds what the collaborators answer during this call: dir_ok (the
\* output directory exists or can be made), uv_ok (smart_project works),
\* bake_ok (bpy.ops.object.bake returns), save_ok (img.save works) and
\* new_graph (the node graph of a material made by bpy.data.materials.new).
\* "baking" is the state of the material graphs when the bake operation is
\* invoked (invoked = TRUE), "real" their state when the call of
\* switch_object_to_real_shading returned, and "calls" the order in which the
\* call reached switch_object_to_real_shading ("real"), bpy.ops.object.bake
\* ("bake"), switch_object_to_baked_shading ("baked") and img.save ("save").
bake_object_light(objs, mats, imgs, fls, name, settings, env) ==
    LET same == [objects |-> objs, materials |-> mats, images |-> imgs, files |-> fls,
                 invoked |-> FALSE, baking |-> mats, real |-> mats, calls |-> <<>>]
    IN
    IF ~env.dir_ok
    THEN same @@ [msgs |-> <<"E:failed to create directory">>, res |-> "dir_failed"]
    ELSE IF ~is_valid_mesh(objs, name)
    THEN same @@ [msgs |-> <<"W:skipped">>, res |-> "skipped"]
    ELSE IF ~objs[name].uv /\ ~env.uv_ok
    THEN same @@ [msgs |-> <<"I:baking object", "E:failed to create UV map">>,
                  res |-> "uv_failed"]
    ELSE
    LET uvmsgs == IF objs[name].uv THEN <<"I:baking object">>
                  ELSE <<"I:baking object", "I:new UV created">>
        img_name == ImageName(name)
        imgs1 == IF HasImage(imgs, img_name) THEN imgs
                 ELSE imgs \cup {[name |-> img_name, size |-> settings.image_size]}
        nomat == Len(objs[name].materials) = 0
        objs1 == [objs EXCEPT ![name].uv = TRUE,
                              ![name].materials =
                                  IF nomat THEN <<BakingMat(name)>> ELSE @]
        mats0 == IF nomat THEN (BakingMat(name) :> env.new_graph) @@ mats ELSE mats
        matmsgs == IF nomat THEN <<"I:new material created", "I:found materials">>
                   ELSE <<"I:found materials">>
        saved == [path |-> img_name \o ".png", size |-> ImageOf(imgs1, img_name).size]
    IN
    With(switch_object_to_real_shading(objs1, mats0, name), LAMBDA real :
    With(BakeNodesFrom(real.mats, objs1[name].materials, 1, img_name), LAMBDA mats2 :
      IF real.res = "raise"
      THEN [objects |-> objs1, materials |-> real.mats, images |-> imgs1, files |-> fls,
            invoked |-> FALSE, baking |-> mats0, real |-> real.mats,
            calls |-> <<"real">>,
            msgs |-> uvmsgs \o matmsgs \o real.msgs, res |-> "raise"]
      ELSE IF ~env.bake_ok
      THEN [objects |-> objs1, materials |-> mats2, images |-> imgs1, files |-> fls,
            invoked |-> TRUE, baking |-> mats2, real |-> real.mats,
            calls |-> <<"real", "bake">>,
            msgs |-> uvmsgs \o matmsgs \o real.msgs \o <<"E:baking failed">>,
            res |-> "bake_failed"]
      ELSE
      With(switch_object_to_baked_shading(objs1, mats2, name), LAMBDA baked :
        IF baked.res = "raise"
        THEN [objects |-> objs1, materials |-> baked.mats, images |-> imgs1,
              files |-> fls, invoked |-> TRUE, baking |-> mats2, real |-> real.mats,
              calls |-> <<"real", "bake", "baked">>,
              msgs |-> uvmsgs \o matmsgs \o real.msgs \o baked.msgs, res |-> "raise"]
        ELSE
        [objects |-> objs1, materials |-> baked.mats, images |-> imgs1,
         files |-> IF env.save_ok
                   THEN {f \in fls : f.path # saved.path} \cup {saved} ELSE fls,
         invoked |-> TRUE, baking |-> mats2, real |-> real.mats,
         calls |-> <<"real", "bake", "baked", "save">>,
         msgs |-> uvmsgs \o matmsgs \o real.msgs \o baked.msgs \o
                  (IF env.save_ok THEN <<>> ELSE <<"E:failed to save image">>) \o
                  <<"I:baked image saved">>,
         res |-> IF env.save_ok THEN "saved" ELSE "save_failed"])))

----------------------------------------------------------------------------
(* Scenes *)

MaxSteps == 3

TemplateO == Node(0, OUTPUT_MATERIAL, "Material Output")
TemplateP == Node(0, BSDF_PRINCIPLED, "Principled BSDF")
TemplateT == Node(0, TEX_IMAGE, "Image Texture")
TemplateK == Node(0, TEX_IMAGE, NODE_BAKE_IMAGE_NAME)

Templates == {TemplateO, TemplateP, TemplateT, TemplateK}

\* the node orders: every arrangement of every subset of the templates
Orders(S) == {s \in [1..Cardinality(S) -> S] : \A i, j \in 1..Cardinality(S) :
                                                    s[i] = s[j] => i = j}
Numbered(s) == [i \in 1..Len(s) |-> [s[i] EXCEPT !.id = i]]

\* the links a graph can have into the input of its output node
LinkChoices(g, i) ==
    IF g[i].type # OUTPUT_MATERIAL THEN {NoLink}
    ELSE {NoLink} \cup {l \in {[node |-> g[j].id, sock |-> k] : j \in 1..Len(g), k \in {0, 1}} :
                            l.sock < NumOutputs(NodeById(g, l.node).type)}

Linked(g) == {[i \in 1..Len(g) |-> [g[i] EXCEPT !.in0 = l[i]]] :
                 l \in {f \in [1..Len(g) -> UNION {LinkChoices(g, i) : i \in 1..Len(g)}] :
                           \A i \in 1..Len(g) : f[i] \in LinkChoices(g, i)}}

GraphsOver(T) == UNION {Linked(Numbered(s)) : s \in UNION {Orders(S) : S \in SUBSET T}}

\* markerless graphs as an author can leave them
Graphs == GraphsOver(Templates)

DefaultGraph ==
    <<[TemplateP EXCEPT !.id = 1],
      [TemplateO EXCEPT !.id = 2, !.in0 = [node |-> 1, sock |-> 0]]>>

\* a complete graph with a bake node, a graph with neither output nor bake
\* node, and an empty graph
SecondGraphs ==
    {Append(DefaultGraph, [TemplateK EXCEPT !.id = 3]),
     <<[TemplateP EXCEPT !.id = 1]>>,
     <<>>}

\* a fresh default graph, a graph with a bake node of an earlier bake in
\* front, a graph fed from the second socket of an image texture, and a
\* graph whose output node has nothing linked
FirstGraphs ==
    {DefaultGraph,
     <<[TemplateK EXCEPT !.id = 1], [TemplateP EXCEPT !.id = 2],
       [TemplateO EXCEPT !.id = 3, !.in0 = [node |-> 2, sock |-> 0]]>>,
     <<[TemplateT EXCEPT !.id = 1],
       [TemplateO EXCEPT !.id = 2, !.in0 = [node |-> 1, sock |-> 1]]>>,
     <<[TemplateP EXCEPT !.id = 1], [TemplateO EXCEPT !.id = 2]>>}

\* the material slots of object A
Slots == {<<>>, <<"M1", "M2">>}
ToggleSlots == {<<"M1">>, <<"M1", "M2">>, <<"M2", "M1">>}

Names == {"A", "B", "L", "X"}

ImageSizes == {256, 512}

\* what the collaborators can answer during one bake_object_light call: the
\* first failure decides the outcome, so one failure at a time covers them
Outcomes ==
    {[dir_ok |-> d, uv_ok |-> u, bake_ok |-> b, save_ok |-> s] : d, u, b, s \in BOOLEAN}

Envs == {e \in Outcomes :
            Cardinality({f \in {"dir_ok", "uv_ok", "bake_ok", "save_ok"} : ~e[f]}) <= 1}

\* the graph of a material made by bpy.data.materials.new, once its nodes are
\* enabled: empty, or the host's default graph; it is asked for only when the
\* object has no material
NewGraphs(name) ==
    IF is_valid_mesh(objects, name) /\ Len(objects[name].materials) = 0
    THEN {<<>>, DefaultGraph} ELSE {<<>>}

NoGraphs == [m \in {"M1", "M2"} |-> <<>>]

NoOp == [op |-> "none", name |-> None, res |-> None, msgs |-> <<>>, at |-> 0,
         node |-> 0, invoked |-> FALSE, rep |-> 0, size |-> 0, calls |-> <<>>,
         baking |-> NoGraphs, real |-> NoGraphs]

\* the bake-all operator: the configured text (a sequence of characters), the
\* list execute got from get_object_names, the index of enumerate, the names
\* bake_object_light has been called with so far, and the image size of the
\* settings
NoBatch == [state |-> "idle", text |-> <<>>, names |-> <<>>, i |-> 0, log |-> <<>>,
            size |-> 0]

NoSnap(m) == [name |-> None, n |-> 0, restored |-> FALSE, mats |-> m]

NoCrit == [ok |-> FALSE, made |-> FALSE, data |-> ByType(None)]

\* the scene: mesh A on its material slots, mesh B on material M2, a light L;
\* no object is called X
Scene(sl, g1, g2) ==
    /\ objects = [n \in {"A", "B", "L"} |->
                    CASE n = "A" -> [type |-> "MESH", materials |-> sl, uv |-> FALSE]
                      [] n = "B" -> [type |-> "MESH", materials |-> <<"M2">>, uv |-> TRUE]
                      [] n = "L" -> [type |-> "LIGHT", materials |-> <<>>, uv |-> FALSE]]
    /\ materials = [m \in {"M1", "M2"} |-> IF m = "M1" THEN g1 ELSE g2]
    /\ images = {}
    /\ files = {}
    /\ last = NoOp
    /\ snap = NoSnap(materials)
    /\ steps = 0
    /\ crit = NoCrit

Init ==
    /\ \E sl \in Slots, g1 \in FirstGraphs, g2 \in SecondGraphs : Scene(sl, g1, g2)
    /\ batch = NoBatch

----------------------------------------------------------------------------
(* The three user actions, for one object name *)

\* history: the run of switch_object_to_baked_shading calls on one object
\* since the graphs of snap.mats, and whether a switch_object_to_real_shading
\* call followed it
SnapBaked(name) ==
    IF snap.name = name /\ snap.n >= 1 /\ ~snap.restored
    THEN [snap EXCEPT !.n = @ + 1]
    ELSE [name |-> name, n |-> 1, restored |-> FALSE, mats |-> materials]

SnapReal(name) ==
    IF snap.name = name /\ snap.n >= 1 /\ ~snap.restored
    THEN [snap EXCEPT !.restored = TRUE]
    ELSE NoSnap(materials')

\* history: how many times in a row the same call has now had the same outcome
Rep(op, name, res) ==
    IF last.op = op /\ last.name = name /\ last.res = res THEN last.rep + 1 ELSE 1

ToRealShading(name) ==
    /\ steps < MaxSteps
    /\ \E r \in {switch_object_to_real_shading(objects, materials, name)} :
           /\ materials' = r.mats
           /\ last' = [NoOp EXCEPT !.op = "real", !.name = name, !.res = r.res,
                                   !.msgs = r.msgs, !.at = r.conn,
                                   !.rep = Rep("real", name, r.res)]
    /\ snap' = SnapReal(name)
    /\ steps' = steps + 1
    /\ UNCHANGED <<objects, images, files, crit, batch>>

ToBakedShading(name) ==
    /\ steps < MaxSteps
    /\ \E r \in {switch_object_to_baked_shading(objects, materials, name)} :
           /\ materials' = r.mats
           /\ last' = [NoOp EXCEPT !.op = "baked", !.name = name, !.res = r.res,
                                   !.msgs = r.msgs, !.at = r.conn,
                                   !.rep = Rep("baked", name, r.res)]
    /\ snap' = SnapBaked(name)
    /\ steps' = steps + 1
    /\ UNCHANGED <<objects, images, files, crit, batch>>

BakeObject(name, size) ==
    /\ steps < MaxSteps
    /\ \E e \in Envs, ng \in NewGraphs(name) :
       \E r \in {bake_object_light(objects, materials, images, files, name,
                                    [image_size |-> size], e @@ [new_graph |-> ng])} :
              /\ objects' = r.objects
              /\ materials' = r.materials
              /\ images' = r.images
              /\ files' = r.files
              /\ last' = [NoOp EXCEPT !.op = "bake", !.name = name, !.res = r.res,
                                      !.msgs = r.msgs, !.invoked = r.invoked,
                                      !.rep = Rep("bake", name, r.res), !.size = size,
                                      !.calls = r.calls, !.baking = r.baking,
                                      !.real = r.real]
    /\ snap' = NoSnap(materials')
    /\ steps' = steps + 1
    /\ UNCHANGED <<crit, batch>>

Next ==
    \/ \E name \in Names : ToRealShading(name)
    \/ \E name \in Names : ToBakedShading(name)
    \/ \E name \in Names, size \in ImageSizes : BakeObject(name, size)

Spec == Init /\ [][Next]_vars

\* the two shading switches alone, on object A, over every authored graph
InitToggle ==
    /\ \E sl \in ToggleSlots, g1 \in Graphs, g2 \in SecondGraphs : Scene(sl, g1, g2)
    /\ batch = NoBatch

NextToggle ==
    \/ ToRealShading("A")
    \/ ToBakedShading("A")

SpecToggle == InitToggle /\ [][NextToggle]_vars

----------------------------------------------------------------------------
(* BakeSettings.get_object_names and BakeAllObjectsOperator.execute.  The   *)
(* configured string is a sequence of one-character strings.                *)

MaxLen == 5

Alphabet == {"A", "L", ",", " "}

IsSpace(c) == c = " "

RECURSIVE Split(_, _, _)
\* str.split(","): the pieces between the commas, from position i on, cur
\* being the piece under construction
Split(s, i, cur) ==
    IF i > Len(s) THEN <<cur>>
    ELSE IF s[i] = "," THEN <<cur>> \o Split(s, i + 1, <<>>)
    ELSE Split(s, i + 1, Append(cur, s[i]))

RECURSIVE LStrip(_)
LStrip(p) == IF p # <<>> /\ IsSpace(Head(p)) THEN LStrip(Tail(p)) ELSE p

RECURSIVE RStrip(_)
RStrip(p) == IF p # <<>> /\ IsSpace(p[Len(p)]) THEN RStrip(SubSeq(p, 1, Len(p) - 1)) ELSE p

\* str.strip()
Strip(p) == LStrip(RStrip(p))

RECURSIVE StrippedFrom(_, _)
\* [name.strip() for name in pieces if name.strip()]
StrippedFrom(pieces, k) ==
    IF k > Len(pieces) THEN <<>>
    ELSE IF Strip(pieces[k]) # <<>> THEN <<Strip(pieces[k])>> \o StrippedFrom(pieces, k + 1)
    ELSE StrippedFrom(pieces, k + 1)

\* a list of names that keeps the pieces that are empty after stripping
get_object_names_keep_empty(text) ==
    With(Split(text, 1, <<>>), LAMBDA pieces : [k \in 1..Len(pieces) |-> Strip(pieces[k])])

get_object_names(text) == StrippedFrom(Split(text, 1, <<>>), 1)

RECURSIVE Str(_)
\* the name as the string the object lookup gets
Str(p) == IF p = <<>> THEN "" ELSE Head(p) \o Str(Tail(p))

Texts == UNION {[1..n -> Alphabet] : n \in 0..MaxLen}

BatchSecond == {<<>>, Append(DefaultGraph, [TemplateK EXCEPT !.id = 3])}

InitBatch ==
    /\ \E sl \in Slots, g2 \in BatchSecond : Scene(sl, DefaultGraph, g2)
    /\ \E t \in Texts, size \in ImageSizes :
          batch = [NoBatch EXCEPT !.text = t, !.size = size]

\* execute, up to the loop
Execute ==
    /\ batch.state = "idle"
    /\ batch' = [batch EXCEPT !.state = "running", !.names = get_object_names(batch.text)]
    /\ UNCHANGED <<objects, materials, images, files, last, snap, steps, crit>>

\* a loop that gives up on the list when an object was not baked and saved
BakeNext_stop_on_failure ==
    /\ batch.state = "running"
    /\ batch.i < Len(batch.names)
    /\ \E e \in Envs, ng \in NewGraphs(Str(batch.names[batch.i + 1])) :
       \E r \in {bake_object_light(objects, materials, images, files,
                                    Str(batch.names[batch.i + 1]),
                                    [image_size |-> batch.size],
                                    e @@ [new_graph |-> ng])} :
              /\ objects' = r.objects
              /\ materials' = r.materials
              /\ images' = r.images
              /\ files' = r.files
              /\ last' = [NoOp EXCEPT !.op = "bake", !.name = Str(batch.names[batch.i + 1]),
                                      !.res = r.res, !.msgs = r.msgs,
                                      !.invoked = r.invoked, !.size = batch.size,
                                      !.calls = r.calls, !.baking = r.baking,
                                      !.real = r.real]
              /\ batch' = [batch EXCEPT !.i = @ + 1,
                                        !.log = Append(@, batch.names[batch.i + 1]),
                                        !.state = IF r.res # "saved" THEN "aborted" ELSE @]
    /\ snap' = NoSnap(materials')
    /\ UNCHANGED <<steps, crit>>

\* one turn of the loop: bake_object_light for the next name; an exception
\* that escapes the call ends execute
BakeNext ==
    /\ batch.state = "running"
    /\ batch.i < Len(batch.names)
    /\ \E e \in Envs, ng \in NewGraphs(Str(batch.names[batch.i + 1])) :
       \E r \in {bake_object_light(objects, materials, images, files,
                                    Str(batch.names[batch.i + 1]),
                                    [image_size |-> batch.size],
                                    e @@ [new_graph |-> ng])} :
              /\ objects' = r.objects
              /\ materials' = r.materials
              /\ images' = r.images
              /\ files' = r.files
              /\ last' = [NoOp EXCEPT !.op = "bake", !.name = Str(batch.names[batch.i + 1]),
                                      !.res = r.res, !.msgs = r.msgs,
                                      !.invoked = r.invoked, !.size = batch.size,
                                      !.calls = r.calls, !.baking = r.baking,
                                      !.real = r.real]
              /\ batch' = [batch EXCEPT !.i = @ + 1,
                                        !.log = Append(@, batch.names[batch.i + 1]),
                                        !.state = IF r.res = "raise" THEN "aborted" ELSE @]
    /\ snap' = NoSnap(materials')
    /\ UNCHANGED <<steps, crit>>

\* the loop is over: progress_end and return {'FINISHED'}
Finish ==
    /\ batch.state = "running"
    /\ batch.i = Len(batch.names)
    /\ batch' = [batch EXCEPT !.state = "finished"]
    /\ UNCHANGED <<objects, materials, images, files, last, snap, steps, crit>>

NextBatch == Execute \/ BakeNext \/ Finish

SpecBatch == InitBatch /\ [][NextBatch]_vars

\* execute runs to its end once started: the host runs the operator to
\* completion
FairBatch == SpecBatch /\ WF_vars(NextBatch)

----------------------------------------------------------------------------
(* The search and the rewiring on their own: a criteria object is           *)
(* constructed, and once constructed it is used for one find_node call on a *)
(* material or one connect_nodes call on object A.                          *)

Marked(g, ids) == [i \in 1..Len(g) |-> IF g[i].id \in ids THEN [g[i] EXCEPT !.marker = PyTrue]
                                        ELSE g[i]]

Complete == Append(DefaultGraph, [TemplateK EXCEPT !.id = 3])

\* two image textures, the second one the bake node
TwoTextures ==
    <<[TemplateT EXCEPT !.id = 1], [TemplateK EXCEPT !.id = 2],
      [TemplateO EXCEPT !.id = 3, !.in0 = [node |-> 1, sock |-> 0]]>>

UtilGraphs == FirstGraphs \cup SecondGraphs \cup
              {Marked(Complete, {1}), Marked(Complete, {3}), Marked(Complete, {1, 3}),
               TwoTextures}

CriteriaArgs ==
    {SearchArgs(t, n, cp, PyTrue, fb, si, cinf, ct, cn) :
        t \in {None, "", OUTPUT_MATERIAL, TEX_IMAGE},
        n \in {None, NODE_BAKE_IMAGE_NAME},
        cp \in {None, MARKER},
        fb \in {None, BSDF_PRINCIPLED},
        si \in {0, 1},
        cinf \in BOOLEAN,
        ct \in {None, TEX_IMAGE_CREATE},
        cn \in {None, NODE_BAKE_IMAGE_NAME}}

InitUtil ==
    /\ \E g1 \in UtilGraphs, g2 \in SecondGraphs : Scene(<<"M1", "M2">>, g1, g2)
    /\ batch = NoBatch

Construct(a) ==
    /\ ~crit.made
    /\ \E r \in {SearchNodeData(a)} :
           /\ crit' = r @@ [made |-> TRUE]
           /\ last' = [NoOp EXCEPT !.op = "construct",
                                   !.res = IF r.ok THEN "ok" ELSE "ValueError"]
    /\ UNCHANGED <<objects, materials, images, files, snap, steps, batch>>

Find(m) ==
    /\ crit.made /\ crit.ok
    /\ last.op = "construct"
    /\ \E r \in {find_node(materials[m], crit.data)} :
           /\ materials' = [materials EXCEPT ![m] = r.nodes]
           /\ last' = [NoOp EXCEPT !.op = "find", !.name = m, !.node = r.node,
                                   !.res = IF r.node = 0 THEN None ELSE "node"]
    /\ UNCHANGED <<objects, images, files, snap, steps, crit, batch>>

Connect(b) ==
    /\ crit.made /\ crit.ok
    /\ last.op = "construct"
    /\ \E c \in {connect_nodes(materials, objects["A"].materials, crit.data, b)} :
           /\ materials' = c.mats
           /\ last' = [NoOp EXCEPT !.op = "connect", !.name = "A", !.res = c.ok,
                                   !.at = c.at, !.msgs = <<c.missing>>]
    /\ UNCHANGED <<objects, images, files, snap, steps, crit, batch>>

NextUtil ==
    \/ \E a \in CriteriaArgs : Construct(a)
    \/ \E m \in {"M1", "M2"} : Find(m)
    \/ \E b \in {OutputCriteria, SearchNodeData(ByType(OUTPUT_MATERIAL)).data} : Connect(b)

SpecUtil == InitUtil /\ [][NextUtil]_vars

----------------------------------------------------------------------------
(* Vocabulary of the properties *)

\* the conditions a criteria carries, as the specification words them
TypeHit(node, c) == c.type # None /\ node.type = c.type
NameHit(node, c) == c.name # None /\ node.name = c.name
PropHit(node, c) == c.custom_property # None
                    /\ NodeGet(node, c.custom_property) = c.custom_property_value
Satisfies(node, c) == TypeHit(node, c) \/ NameHit(node, c) \/ PropHit(node, c)

Hits(nodes, c) == {i \in 1..Len(nodes) : Satisfies(nodes[i], c)}
FirstHit(nodes, c) == CHOOSE i \in Hits(nodes, c) : \A j \in Hits(nodes, c) : i <= j

OnlyType(c) == /\ c.type # None /\ c.type # ""
               /\ c.name = None /\ c.custom_property = None

\* a field counts as set when it holds a non-empty value
IsSet(x) == x # None /\ x # ""

----------------------------------------------------------------------------
(* C7 *)

\* C7: find returns the first node, in the graph's node order, that satisfies
\* at least one condition present on the criteria; unset fields never match,
\* and a criteria with only the type set gives the first node of that type or,
\* without creation, not-found.
C7_FindReturnsFirstMatch ==
    [][last'.op = "find" =>
         LET g == materials[last'.name]
             c == crit.data
         IN  /\ Hits(g, c) # {} => last'.node = g[FirstHit(g, c)].id
             /\ (OnlyType(c) /\ {i \in 1..Len(g) : g[i].type = c.type} # {})
                   => /\ last'.node # 0
                      /\ NodeById(g, last'.node).type = c.type
                      /\ \A i \in 1..(IndexOf(g, last'.node) - 1) : g[i].type # c.type
             /\ (OnlyType(c) /\ ~c.create_if_not_found
                   /\ {i \in 1..Len(g) : g[i].type = c.type} = {})
                   => last'.node = 0 /\ materials' = materials]_vars

\* a search by type alone met a graph with two nodes of the type and returned
\* the one that comes first
C7_Witness ==
    /\ last.op = "find"
    /\ OnlyType(crit.data) /\ crit.data.type = TEX_IMAGE
    /\ Len(materials[last.name]) = 3
    /\ materials[last.name][1].type = TEX_IMAGE
    /\ materials[last.name][2].type = TEX_IMAGE
    /\ last.node = materials[last.name][1].id

----------------------------------------------------------------------------
(* C8 *)

----------------------------------------------------------------------------
(* C6 *)

\* C6: with creation requested and no node matching the criteria, the finder
\* creates exactly one node of create_type (named create_name if given) and
\* returns it, for every graph, the empty one included, and also when the
\* criteria has a custom property with a fallback type.
C6_FindOrCreateAlwaysReturnsNode ==
    [][(last'.op = "find" /\ crit.data.create_if_not_found
          /\ Hits(materials[last'.name], crit.data) = {}) =>
         LET g == materials[last'.name]
             h == materials'[last'.name]
         IN  /\ last'.node # 0
             /\ Len(h) = Len(g) + 1
             /\ \A i \in 1..Len(g) : h[i] = g[i]
             /\ h[Len(h)].id = last'.node
             /\ h[Len(h)].type = CreatedType(crit.data.create_type)
             /\ crit.data.create_name # None => h[Len(h)].name = crit.data.create_name]_vars

----------------------------------------------------------------------------
(* C3 *)

\* the slots of object A, whose materials connect_nodes walks
SlotsOfA == objects["A"].materials

\* material j carries the new link from node A to node B
Rewired(j, b) ==
    LET g == materials[SlotsOfA[j]]
        h == materials'[SlotsOfA[j]]
        na == find_node(g, crit.data).node
        nb == find_node(find_node(g, crit.data).nodes, b).node
    IN  /\ nb \in Ids(h)
        /\ NodeById(h, nb).in0 = [node |-> na, sock |-> crit.data.socket_index]

\* material j is exactly as it was
Untouched(j) == materials'[SlotsOfA[j]] = materials[SlotsOfA[j]]

\* material j kept every node, link and property it had, and gained at most
\* one node, which nothing is linked to or from
OnlyGainedNode(j) ==
    LET g == materials[SlotsOfA[j]]
        h == materials'[SlotsOfA[j]]
    IN  /\ Len(h) \in {Len(g), Len(g) + 1}
        /\ \A i \in 1..Len(g) : h[i] = g[i]
        /\ Len(h) = Len(g) + 1 =>
              /\ h[Len(h)].in0 = NoLink
              /\ h[Len(h)].marker = None
              /\ h[Len(h)].id \notin Ids(g)

\* C3 as stated: when connect fails at material k, the materials before k keep
\* the new link and material k and every later one are exactly as before.
C3_FailureLeavesRestUntouched ==
    [][(last'.op = "connect" /\ last'.res = PyFalse) =>
         \E b \in {OutputCriteria, SearchNodeData(ByType(OUTPUT_MATERIAL)).data} :
            /\ \A j \in 1..(last'.at - 1) : Rewired(j, b)
            /\ \A j \in last'.at..Len(SlotsOfA) : Untouched(j)]_vars

\* C3, amended: when connect fails at material k, the materials before k keep
\* the new link, every material after k is exactly as before, and material k
\* keeps all its nodes, links and properties but may have gained one new,
\* unlinked node, made by the creation-on-miss of the criteria that was found.
C3_FailureLeavesLaterUntouched ==
    [][(last'.op = "connect" /\ last'.res = PyFalse) =>
         \E b \in {OutputCriteria, SearchNodeData(ByType(OUTPUT_MATERIAL)).data} :
            /\ \A j \in 1..(last'.at - 1) : Rewired(j, b)
            /\ OnlyGainedNode(last'.at)
            /\ \A j \in (last'.at + 1)..Len(SlotsOfA) : Untouched(j)]_vars

\* connect failed at the second material, after rewiring the first, and the
\* second material, which had a single shader node, now has an unlinked
\* output node as well
C3_Witness ==
    /\ last.op = "connect" /\ last.res = PyFalse /\ last.at = 2
    /\ Len(materials["M2"]) = 2
    /\ materials["M2"][2].type = OUTPUT_MATERIAL
    /\ materials["M2"][2].in0 = NoLink
    /\ \E i \in 1..Len(materials["M1"]) :
          /\ materials["M1"][i].type = OUTPUT_MATERIAL
          /\ materials["M1"][i].in0.node # 0

----------------------------------------------------------------------------
(* Vocabulary of the shading properties *)

\* the material-output node of a graph: its first node of that type (0 if none)
OutputOf(nodes) ==
    LET outs == {i \in 1..Len(nodes) : nodes[i].type = OUTPUT_MATERIAL}
    IN  IF outs = {} THEN 0 ELSE CHOOSE i \in outs : \A j \in outs : i <= j

\* what feeds the surface input of the material output: node and socket
SurfaceSource(nodes) == IF OutputOf(nodes) = 0 THEN NoLink ELSE nodes[OutputOf(nodes)].in0

MarkedIds(nodes) == {nodes[i].id : i \in {j \in 1..Len(nodes) : nodes[j].marker = PyTrue}}

BakeNodes(nodes) == {i \in 1..Len(nodes) : nodes[i].name = NODE_BAKE_IMAGE_NAME}

SlotSet(objs, name) == {objs[name].materials[k] : k \in 1..Len(objs[name].materials)}

\* REAL shading of an object: no marker anywhere, a bake-image node in every
\* material, and no bake-image node feeding a surface input
RealShading(objs, mats, name) ==
    \A m \in SlotSet(objs, name) :
        /\ MarkedIds(mats[m]) = {}
        /\ BakeNodes(mats[m]) # {}
        /\ SurfaceSource(mats[m]).node \notin {mats[m][i].id : i \in BakeNodes(mats[m])}

----------------------------------------------------------------------------
(* C1 *)

\* C1: for an object in REAL shading, toBakedShading followed by toRealShading
\* restores in every material the source node and source socket of the surface
\* input (nothing, when nothing was connected).
C1_RoundTripRestoresSource ==
    (/\ snap.restored /\ snap.n = 1
     /\ RealShading(objects, snap.mats, snap.name))
    => \A m \in SlotSet(objects, snap.name) :
          SurfaceSource(materials[m]) = SurfaceSource(snap.mats[m])

----------------------------------------------------------------------------
(* C2 *)

\* C2: after two or more toBakedShading calls in a row on an object that was in
\* REAL shading, toRealShading links the surface input of every material back
\* to the shader node that fed it before the first call, in any node order.
C2_RepeatedBakedKeepsOriginal ==
    (/\ snap.restored /\ snap.n >= 2
     /\ RealShading(objects, snap.mats, snap.name))
    => \A m \in SlotSet(objects, snap.name) :
          SurfaceSource(snap.mats[m]).node # 0
             => SurfaceSource(materials[m]).node = SurfaceSource(snap.mats[m]).node

----------------------------------------------------------------------------
(* C4 *)

\* C4: when toBakedShading fails for want of a bake-image node in material k,
\* no node of a material after k has had its marker changed by the call.
C4_NoMarkerChangeAfterFailure ==
    [][(/\ last'.op = "baked" /\ last'.res = "failed"
        /\ "W:node_a not found" \in {last'.msgs[i] : i \in 1..Len(last'.msgs)}) =>
         \A k \in (last'.at + 1)..Len(objects[last'.name].materials) :
            LET m == objects[last'.name].materials[k]
            IN  MarkedIds(materials'[m]) = MarkedIds(materials[m])]_vars

----------------------------------------------------------------------------
(* C5 *)

\* C5: after a successful toRealShading no node of any material of the object
\* carries the marker with value true.
C5_MarkerClearedAfterReal ==
    (last.op = "real" /\ last.res = "switched")
    => \A m \in SlotSet(objects, last.name) : MarkedIds(materials[m]) = {}

----------------------------------------------------------------------------
(* C9 *)

\* C9 as stated: after a bakeObject call on a mesh object, every material of
\* the object holds exactly one node with the reserved bake-image name.
C9_ExactlyOneBakeNode ==
    (last.op = "bake" /\ is_valid_mesh(objects, last.name))
    => /\ objects[last.name].materials # <<>>
       /\ \A m \in SlotSet(objects, last.name) : Cardinality(BakeNodes(materials[m])) = 1

\* C9, amended: no material ever holds two nodes with the reserved name, and
\* after every bakeObject call on a mesh object that got past the directory
\* and UV steps, however many calls came before it, the object has a material
\* and each of its materials holds exactly one such node.
C9_ExactlyOneBakeNodeOnceSetUp ==
    /\ \A m \in DOMAIN materials : Cardinality(BakeNodes(materials[m])) <= 1
    /\ (last.op = "bake" /\ last.invoked)
       => /\ objects[last.name].materials # <<>>
          /\ \A m \in SlotSet(objects, last.name) :
                Cardinality(BakeNodes(materials[m])) = 1

\* the same object was baked twice in a row, both bakes saved, and its
\* materials hold one bake node each
C9_Witness ==
    /\ last.op = "bake" /\ last.res = "saved" /\ last.rep >= 2
    /\ Len(objects[last.name].materials) = 2
    /\ \A m \in SlotSet(objects, last.name) : Cardinality(BakeNodes(materials[m])) = 1

----------------------------------------------------------------------------
(* C10 *)

\* C10: after bakeObject on a mesh object whose external bake succeeded, in
\* every material the surface input of the material output is fed by the
\* bake-image node, and that node is bound to the image "<object>_Baked".
C10_BakedShadingAfterBake ==
    (last.op = "bake" /\ last.res \in {"saved", "save_failed"})
    => \A m \in SlotSet(objects, last.name) :
          LET g == materials[m]
              src == SurfaceSource(g).node
          IN  /\ OutputOf(g) # 0
              /\ src # 0
              /\ NodeById(g, src).name = NODE_BAKE_IMAGE_NAME
              /\ NodeById(g, src).image = last.name \o "_Baked"
              /\ \E i \in images : i.name = last.name \o "_Baked"

\* object B was baked after another call had left the bake node of its
\* material bound to the image of object A
C10_Witness ==
    /\ last.op = "bake" /\ last.name = "B" /\ last.res = "saved"
    /\ \E i \in images : i.name = "A_Baked"
    /\ "M2" \in SlotSet(objects, "A")
    /\ NodeById(materials["M2"], SurfaceSource(materials["M2"]).node).image = "B_Baked"

----------------------------------------------------------------------------
(* C11 *)

\* C11: after a bakeObject call that saved its image, the image baked into
\* and the saved file have the image_size of the settings of that call.
C11_ImageHasConfiguredSize ==
    (last.op = "bake" /\ last.res = "saved")
    => /\ ImageOf(images, ImageName(last.name)).size = last.size
       /\ \E f \in files : f.path = ImageName(last.name) \o ".png" /\ f.size = last.size

----------------------------------------------------------------------------
(* C12 *)

\* the name resolves to a mesh object
IsMesh(name) == name \in DOMAIN objects /\ objects[name].type = "MESH"

Warned(msgs) == \E i \in 1..Len(msgs) : msgs[i] = "W:skipped"

\* C12 as stated: a call of one of the three operations with a name that
\* resolves to no mesh object reports a warning and changes no material
\* graph, no image and no output file.
C12_InvalidNameWarnsAndChangesNothing ==
    [][(last'.op \in {"bake", "real", "baked"} /\ ~IsMesh(last'.name))
       => /\ materials' = materials /\ images' = images /\ files' = files
          /\ Warned(last'.msgs)]_vars

\* C12, amended: such a call changes no material graph, no image and no
\* output file; it reports the warning, except that bakeObject reports the
\* directory error and nothing else when the output directory cannot be made.
C12_InvalidNameChangesNothing ==
    [][(last'.op \in {"bake", "real", "baked"} /\ ~IsMesh(last'.name))
       => /\ materials' = materials /\ images' = images /\ files' = files
          /\ objects' = objects
          /\ IF last'.res = "dir_failed"
             THEN last'.op = "bake" /\ last'.msgs = <<"E:failed to create directory">>
             ELSE last'.res = "skipped" /\ Warned(last'.msgs)]_vars

\* the light was named in a bake call after another object had been baked
\* and saved, and the call was skipped
C12_Witness ==
    /\ last.op = "bake" /\ last.name = "L" /\ last.res = "skipped"
    /\ images # {} /\ files # {}

----------------------------------------------------------------------------
(* C13 *)

\* the calls made so far are the first names of the list, in list order
InListOrder ==
    /\ batch.i = Len(batch.log)
    /\ Len(batch.log) <= Len(batch.names)
    /\ \A k \in 1..Len(batch.log) : batch.log[k] = batch.names[k]
    /\ batch.log # <<>> => last.op = "bake" /\ last.name = Str(batch.log[Len(batch.log)])

\* C13: bake-all calls bakeObject for the names of the list in list order,
\* one per turn, no error escapes a call whatever its outcome, and the loop
\* reaches the end of the list with every name processed exactly once.
C13_BatchReachesEndInOrder ==
    /\ [](InListOrder /\ batch.state # "aborted")
    /\ <>(batch.state = "finished" /\ batch.log = batch.names)

\* the batch ended after a list that names the light first and a mesh last;
\* the mesh was baked and saved
C13_Witness ==
    /\ batch.state = "finished"
    /\ Len(batch.log) >= 2
    /\ batch.log[1] = <<"L">>
    /\ last.res = "saved"

----------------------------------------------------------------------------
(* C17 *)

Blank(c) == c = " "

\* the positions that bound the pieces: before the text, the commas, after it
Cuts(s) == {0} \cup {i \in 1..Len(s) : s[i] = ","} \cup {Len(s) + 1}

\* the piece that starts after cut a
Piece(s, a) ==
    LET b == CHOOSE c \in Cuts(s) : c > a /\ \A d \in Cuts(s) : d > a => c <= d
    IN  SubSeq(s, a + 1, b - 1)

Trim(p) ==
    LET ns == {i \in 1..Len(p) : ~Blank(p[i])}
    IN  IF ns = {} THEN <<>>
        ELSE SubSeq(p, CHOOSE i \in ns : \A j \in ns : i <= j,
                       CHOOSE i \in ns : \A j \in ns : i >= j)

\* the cuts whose piece is not empty after trimming
Kept(s) == {a \in Cuts(s) \ {Len(s) + 1} : Trim(Piece(s, a)) # <<>>}

ExpectedNames(s) ==
    [k \in 1..Cardinality(Kept(s)) |->
        Trim(Piece(s, CHOOSE a \in Kept(s) : Cardinality({b \in Kept(s) : b < a}) = k - 1))]

\* C17: the list of names is the sequence of the comma-separated pieces of
\* the configured string, trimmed, without the pieces that are empty after
\* trimming, in their order and with duplicates kept.
C17_NamesAreTrimmedPieces ==
    batch.state # "idle" => batch.names = ExpectedNames(batch.text)

\* a text with a blank and an empty piece that names the same object twice
C17_Witness ==
    /\ batch.state # "idle"
    /\ \E i \in 1..Len(batch.text) : batch.text[i] = " "
    /\ \E i \in 1..Len(batch.text) - 1 : batch.text[i] = "," /\ batch.text[i + 1] = ","
    /\ Len(batch.names) = 2
    /\ batch.names[1] = batch.names[2]

----------------------------------------------------------------------------
(* C14 *)

IsPrefix(s, t) == Len(s) <= Len(t) /\ \A k \in 1..Len(s) : s[k] = t[k]

\* the surface input is fed by a bake-image node
FedByBakeNode(nodes) ==
    /\ SurfaceSource(nodes).node # 0
    /\ NodeById(nodes, SurfaceSource(nodes).node).name = NODE_BAKE_IMAGE_NAME

\* toRealShading before the bake operation, toBakedShading only after the
\* bake operation returned, and after a failed bake no toBakedShading and no
\* new file
BakeCallOrder ==
    last'.op = "bake"
    => /\ IsPrefix(last'.calls, <<"real", "bake", "baked", "save">>)
       /\ last'.invoked <=> Len(last'.calls) >= 2
       /\ Len(last'.calls) >= 3 => last'.res \notin {"bake_failed"}
       /\ last'.res = "bake_failed" => last'.calls = <<"real", "bake">> /\ files' = files

\* C14 as stated: the order of the calls, and after a failed bake the
\* surface link and the markers of every material of the object are as
\* toRealShading left them.
C14_BakeFailureLeavesRealShading ==
    [][/\ BakeCallOrder
       /\ (last'.op = "bake" /\ last'.res = "bake_failed")
          => \A m \in SlotSet(objects', last'.name) :
                /\ SurfaceSource(materials'[m]) = SurfaceSource(last'.real[m])
                /\ MarkedIds(materials'[m]) = MarkedIds(last'.real[m])]_vars

----------------------------------------------------------------------------
(* C15 *)

\* C15: when bakeObject invokes the bake operation, the surface input of
\* every material of the object is fed by a node that is not a bake-image
\* node.
C15_BakeSamplesLiveShader ==
    (last.op = "bake" /\ last.invoked)
    => \A m \in SlotSet(objects, last.name) :
          /\ SurfaceSource(last.baking[m]).node # 0
          /\ ~FedByBakeNode(last.baking[m])

----------------------------------------------------------------------------
(* C16 *)

\* C16: a find whose criteria do not request creation leaves every graph as
\* it was, and a second find with the same criteria on the same graph
\* returns the same node, or not-found again, and changes nothing either.
C16_FindWithoutCreationChangesNothing ==
    [][(last'.op = "find" /\ ~crit.data.create_if_not_found)
       => /\ materials' = materials
          /\ find_node(materials'[last'.name], crit.data).node = last'.node
          /\ find_node(materials'[last'.name], crit.data).nodes = materials[last'.name]]_vars

\* a find that did not request creation, on a graph with nodes, with a
\* create_type and a fallback type given, found nothing
C16_Witness ==
    /\ last.op = "find" /\ last.node = 0
    /\ ~crit.data.create_if_not_found
    /\ Truthy(crit.data.create_type)
    /\ Truthy(crit.data.custom_property)
    /\ Truthy(crit.data.custom_property_not_found_fallback_type)
    /\ materials[last.name] # <<>>

----------------------------------------------------------------------------
(* C18 *)

\* the surface link and the markers of every material of the object agree
SameShading(name, mats1, mats2) ==
    \A m \in SlotSet(objects, name) :
        /\ SurfaceSource(mats1[m]) = SurfaceSource(mats2[m])
        /\ MarkedIds(mats1[m]) = MarkedIds(mats2[m])

\* no marker on any material of the object, and every surface input fed by
\* a node that is not a bake-image node
InRealShading(name, mats) ==
    \A m \in SlotSet(objects, name) :
        /\ MarkedIds(mats[m]) = {}
        /\ SurfaceSource(mats[m]).node # 0
        /\ ~FedByBakeNode(mats[m])

\* C18: a second toRealShading right after a first one leaves the surface
\* links and the markers as the first one left them, and toRealShading on an
\* object in REAL shading without markers leaves the surface links as they
\* were.
C18_RealShadingIdempotent ==
    [][(last'.op = "real" /\ IsMesh(last'.name))
       => /\ SameShading(last'.name, materials',
                         switch_object_to_real_shading(objects, materials', last'.name).mats)
          /\ InRealShading(last'.name, materials)
             => \A m \in SlotSet(objects, last'.name) :
                   SurfaceSource(materials'[m]) = SurfaceSource(materials[m])]_vars

----------------------------------------------------------------------------
(* C19 *)

FirstOf(S) == IF S = {} THEN 0 ELSE CHOOSE i \in S : \A j \in S : i <= j

\* position of the node toRealShading has to link: the first node that
\* carries the marker, else the first node of the principled type (0 if none)
RealSource(nodes) ==
    IF \E i \in 1..Len(nodes) : nodes[i].marker = PyTrue
    THEN FirstOf({i \in 1..Len(nodes) : nodes[i].marker = PyTrue})
    ELSE FirstOf({i \in 1..Len(nodes) : nodes[i].type = BSDF_PRINCIPLED})

\* C19: after a successful toRealShading every material has its first
\* material-output node (a new one if it had none) fed on the surface input
\* from socket 0 of the first node that carried the marker before the call,
\* or of the first principled node if none carried it; when a material has
\* neither, the call reports failure.
C19_RealShadingLinksOriginalOrDefault ==
    [][(last'.op = "real" /\ IsMesh(last'.name) /\ objects[last'.name].materials # <<>>)
       => /\ last'.res = "switched"
             => \A m \in SlotSet(objects, last'.name) :
                   /\ RealSource(materials[m]) # 0
                   /\ OutputOf(materials'[m]) =
                         IF OutputOf(materials[m]) # 0 THEN OutputOf(materials[m])
                         ELSE Len(materials[m]) + 1
                   /\ SurfaceSource(materials'[m]) =
                         [node |-> materials[m][RealSource(materials[m])].id, sock |-> 0]
          /\ (\E m \in SlotSet(objects, last'.name) : RealSource(materials[m]) = 0)
             => /\ last'.res = "failed"
                /\ \E i \in 1..Len(last'.msgs) : last'.msgs[i] = "W:failed to connect nodes"]_vars

\* toRealShading succeeded after a toBakedShading, and in one material it
\* linked an image texture although a principled node stands in the graph
C19_Witness ==
    /\ last.op = "real" /\ last.res = "switched"
    /\ snap.restored
    /\ \E m \in SlotSet(objects, last.name) :
          /\ SurfaceSource(materials[m]).node # 0
          /\ NodeById(materials[m], SurfaceSource(materials[m]).node).type = TEX_IMAGE
          /\ ~FedByBakeNode(materials[m])
          /\ \E i \in 1..Len(materials[m]) : materials[m][i].type = BSDF_PRINCIPLED

----------------------------------------------------------------------------
(* C20 *)

\* the node that feeds the surface input, as a set: empty when the graph has
\* no output node or the surface input has no link
Feeding(nodes) ==
    IF SurfaceSource(nodes).node = 0 THEN {} ELSE {SurfaceSource(nodes).node}

SameLinks(g1, g2) ==
    /\ Len(g1) = Len(g2)
    /\ \A i \in 1..Len(g1) : g1[i].id = g2[i].id /\ g1[i].in0 = g2[i].in0

\* C20: toBakedShading marks, in every material of the object, the node that
\* fed the surface input before the call and no other node; the graphs as
\* they are when the last marker has been written have the links of before
\* the call and the markers of after it.
C20_SnapshotBeforeRewiring ==
    [][(last'.op = "baked" /\ IsMesh(last'.name) /\ objects[last'.name].materials # <<>>)
       => \A m \in SlotSet(objects, last'.name) :
             /\ MarkedIds(materials'[m]) = MarkedIds(materials[m]) \cup Feeding(materials[m])
             /\ SameLinks(StoreFrom(materials, objects[last'.name].materials, 1)[m],
                          materials[m])
             /\ MarkedIds(StoreFrom(materials, objects[last'.name].materials, 1)[m]) =
                   MarkedIds(materials'[m])]_vars

\* a first toBakedShading on an object with two materials succeeded: one
\* material got the marker on its shader, the other, whose surface input had
\* no link, got none
C20_Witness ==
    /\ last.op = "baked" /\ last.res = "switched" /\ snap.n = 1
    /\ Len(objects[last.name].materials) = 2
    /\ \E m \in SlotSet(objects, last.name) :
          \E i \in 1..Len(materials[m]) :
              materials[m][i].marker = PyTrue /\ materials[m][i].type = BSDF_PRINCIPLED
    /\ \E m \in SlotSet(objects, last.name) : MarkedIds(materials[m]) = {}
    /\ \A m \in SlotSet(objects, last.name) : FedByBakeNode(materials[m])

----------------------------------------------------------------------------
(* C21 *)

\* the surface input of the graph is fed by a bake-image node bound to the
\* image of the object
ShowsBakeOf(nodes, name) ==
    /\ FedByBakeNode(nodes)
    /\ NodeById(nodes, SurfaceSource(nodes).node).image = name \o "_Baked"

\* C21: when a bakeObject call that saved its image is followed by a
\* bakeObject call for another object that saved its image too, every
\* material of the first object still has its surface input fed by a
\* bake-image node bound to the image of the first object.
C21_BakeKeepsOtherObjectsResult ==
    [][(/\ last.op = "bake" /\ last.res = "saved"
        /\ last'.op = "bake" /\ last'.res = "saved"
        /\ last'.name # last.name)
       => \A m \in SlotSet(objects', last.name) :
             ShowsBakeOf(materials'[m], last.name)]_vars

----------------------------------------------------------------------------
(* C22 *)

Reported(msgs, text) == \E i \in 1..Len(msgs) : msgs[i] = text

\* C22: a bakeObject call reports "baked image saved" only when the image
\* file was saved; when the save failed it reports the error and no success
\* message after it.
C22_SavedMessageOnlyAfterSave ==
    last.op = "bake"
    => /\ Reported(last.msgs, "I:baked image saved") => last.res = "saved"
       /\ last.res = "save_failed"
          => /\ Reported(last.msgs, "E:failed to save image")
             /\ ~\E i, j \in 1..Len(last.msgs) :
                    /\ i < j
                    /\ last.msgs[i] = "E:failed to save image"
                    /\ last.msgs[j] = "I:baked image saved"

====
